---- MODULE Spec2Model ----
(***************************************************************************)
(* Model of the modal editor core in src/src/editor.rs: the render loop    *)
(* (Editor::run), the two mode handlers, the keymap lookup and the action  *)
(* dispatcher.  The buffer type (crate::window::Window) and the            *)
(* configuration (crate::config) are not part of editor.rs; their parts    *)
(* are modelled from the written specification and are marked as such.     *)
(*                                                                         *)
(* Terminal output commands are taken to succeed (every one is unwrap()ed  *)
(* in the code and the specification treats them as infallible); the       *)
(* fallible steps that the code's control flow shows are modelled: the     *)
(* event read (read()?), the buffer save, and u16 cursor arithmetic.       *)
(***************************************************************************)
EXTENDS Integers, Sequences, FiniteSets, TLC

(* ------------------------------ bounds -------------------------------- *)

\* number of input events one run of the model reads
MaxEvents == 3

\* how far below the largest u16 value the deep-run start positions lie
EdgeGap == 1

(* ------------------------- program constants -------------------------- *)

\* cursor coordinates are u16: values are taken modulo 2^16
U16Mod == 65536

Modes == {"Normal", "Insert"}

Actions == {"Quit", "MoveUp", "MoveDown", "MoveLeft", "MoveRight",
            "InsertMode", "DeleteUnderCursor", "NormalMode", "Save",
            "InsertLineAfter", "InsertLineAbove"}

\* the four shapes of a configured KeyAction
Shapes == {"Single", "Multiple", "Nested", "Repeating"}

Single(a) == [shape |-> "Single", action |-> a]

\* a non-Single shape; of its payload the model keeps the leading primitive
\* action (the first of a Multiple list, the body of a Repeating, ...)
Compound(s, a) == [shape |-> s, action |-> a]

\* Option::None of a keymap lookup
NoKeyAction == [shape |-> "None", action |-> "None"]

(* ------------------------------ inputs -------------------------------- *)

Chars == {"h", "j", "k", "l", "i", "q", "z"}

\* KeyModifiers is a bit set; these are the sets the model draws from
ModifierSets == {{}, {"SHIFT"}, {"CONTROL"}, {"SHIFT", "CONTROL"}}

CharEvents ==
    { [kind |-> "Key", code |-> "Char", c |-> ch, modifiers |-> m] :
        ch \in Chars, m \in ModifierSets }

\* Esc, one other non-character key, and one non-key event
OtherEvents ==
    { [kind |-> "Key", code |-> "Esc", c |-> "", modifiers |-> {}],
      [kind |-> "Key", code |-> "Enter", c |-> "", modifiers |-> {}],
      [kind |-> "Resize", code |-> "None", c |-> "", modifiers |-> {}] }

Events == CharEvents \cup OtherEvents

NoEvent == [kind |-> "None", code |-> "None", c |-> "", modifiers |-> {}]

\* Normal-mode keymap of the loaded configuration: key string -> KeyAction.
\* Every primitive action and every compound shape is bound; the plain "z"
\* is unbound, and no SHIFT+CONTROL spelling can be bound.
KeysNormalA ==
    ( "h" :> Single("MoveLeft") )   @@ ( "j" :> Single("MoveDown") ) @@
    ( "k" :> Single("MoveUp") )     @@ ( "l" :> Single("MoveRight") ) @@
    ( "i" :> Single("InsertMode") ) @@ ( "q" :> Single("Quit") ) @@
    ( "C-z" :> Single("Save") )     @@ ( "C-q" :> Single("NormalMode") ) @@
    ( "S-j" :> Single("InsertLineAfter") ) @@
    ( "S-k" :> Single("InsertLineAbove") ) @@
    ( "C-h" :> Single("DeleteUnderCursor") ) @@
    ( "S-h" :> Compound("Multiple", "MoveDown") ) @@
    ( "S-l" :> Compound("Nested", "Quit") ) @@
    ( "C-l" :> Compound("Repeating", "InsertMode") )

\* a second configuration: the same keys spelled differently
KeysNormalB ==
    ( "S-h" :> Single("MoveLeft") ) @@ ( "C-j" :> Single("MoveDown") ) @@
    ( "k" :> Single("MoveUp") )     @@ ( "C-l" :> Single("MoveRight") ) @@
    ( "S-i" :> Single("InsertMode") ) @@ ( "C-q" :> Single("Quit") ) @@
    ( "S-z" :> Single("Save") ) @@
    ( "j" :> Compound("Repeating", "MoveRight") )

Configs == {KeysNormalA, KeysNormalB}

\* line contents of the file the buffer was opened on
InitBuffers == { << <<"a", "b">>, <<"c">> >> }


(* --------------------------- pure helpers ----------------------------- *)

\* the terminal commands the editor queues or executes
MoveTo(x, y) == <<"MoveTo", x, y>>

PrintLine(line) == <<"Print", line, "\r">>

SetCursorStyle(s) == <<"SetCursorStyle", s>>

ClearAll == <<"Clear", "All">>

\* variant: the prefix is chosen by the modifiers the set contains
ModifierContains(modifiers) ==
    CASE "SHIFT" \in modifiers   -> "S-"
      [] "CONTROL" \in modifiers -> "C-"
      [] OTHER                   -> ""

\* modifier prefix of the lookup string: a match on the whole modifier set
Modifier(modifiers) ==
    CASE modifiers = {"SHIFT"}   -> "S-"
      [] modifiers = {"CONTROL"} -> "C-"
      [] OTHER                   -> ""

\* format!("{modifier}{c}")
LookupKey(modifiers, c) == Modifier(modifiers) \o c

\* normal.get(&key).cloned(): Some(KeyAction) or None
KeymapGet(normal, key) ==
    IF key \in DOMAIN normal THEN normal[key] ELSE NoKeyAction

\* i as u16, and u16 addition in a build without overflow checks
WrapU16(v) == v % U16Mod

\* variant: the row is decremented without the guard
MoveUpTargetUnguarded(cur) == [x |-> cur.x, y |-> cur.y - 1]

\* cursor.y - 1 behind the guard cursor.y > 0, else the same position
MoveUpTarget(cur) ==
    IF cur.y > 0 THEN [x |-> cur.x, y |-> cur.y - 1]
                 ELSE [x |-> cur.x, y |-> cur.y]

\* variant: the column is decremented without the guard
MoveLeftTargetUnguarded(cur) == [x |-> cur.x - 1, y |-> cur.y]

\* cursor.x - 1 behind the guard cursor.x > 0, else the same position
MoveLeftTarget(cur) ==
    IF cur.x > 0 THEN [x |-> cur.x - 1, y |-> cur.y]
                 ELSE [x |-> cur.x, y |-> cur.y]

\* cursor.y + 1, unguarded (the sum before it is narrowed to u16)
MoveDownTarget(cur) == [x |-> cur.x, y |-> cur.y + 1]

\* cursor.x + 1, unguarded (the sum before it is narrowed to u16)
MoveRightTarget(cur) == [x |-> cur.x + 1, y |-> cur.y]

\* an unguarded u16 sum left the type's range
Overflowed(pos) == pos.x >= U16Mod \/ pos.y >= U16Mod

(* ------------- the buffer (Window), from the specification ------------ *)

Min(a, b) == IF a < b THEN a ELSE b

\* 1-based index of the line the cursor row falls on, clamped to content
ClampRow(buf, cur) == Min(cur.y + 1, Len(buf))

\* column of the cursor clamped to the length of a line
ClampCol(line, cur) == Min(cur.x, Len(line))

\* Window::insert(text): text goes into the cursor line at the cursor column
WindowInsert(buf, cur, text) ==
    LET r    == ClampRow(buf, cur)
        line == buf[r]
        col  == ClampCol(line, cur)
    IN  [buf EXCEPT ![r] = SubSeq(line, 1, col) \o <<text>>
                           \o SubSeq(line, col + 1, Len(line))]

\* Window::insert_line_below(): an empty line after the cursor line
WindowInsertLineBelow(buf, cur) ==
    LET r == ClampRow(buf, cur)
    IN  SubSeq(buf, 1, r) \o << <<>> >> \o SubSeq(buf, r + 1, Len(buf))

\* Window::insert_line_above(): an empty line before the cursor line
WindowInsertLineAbove(buf, cur) ==
    LET r == ClampRow(buf, cur)
    IN  SubSeq(buf, 1, r - 1) \o << <<>> >> \o SubSeq(buf, r, Len(buf))

\* Window::delete_under_cursor(): the character at the cursor, if any
WindowDeleteUnderCursor(buf, cur) ==
    LET r    == ClampRow(buf, cur)
        line == buf[r]
    IN  IF cur.x < Len(line)
        THEN [buf EXCEPT ![r] = SubSeq(line, 1, cur.x)
                                \o SubSeq(line, cur.x + 2, Len(line))]
        ELSE buf

\* the failures Window::save() can report
SaveErrors == {"PermissionDenied", "StorageFull"}

\* Window::save(): Ok, or Err with one of the failures
SaveResults == {"Ok"} \cup SaveErrors

\* e.to_string(): the display text of a save failure
ErrorText(e) ==
    CASE e = "PermissionDenied" -> "Permission denied (os error 13)"
      [] e = "StorageFull"      -> "No space left on device (os error 28)"

(* ------------------------------- state -------------------------------- *)

VARIABLES
    pc,              \* position of Editor::run: start, refresh, flush, read,
                     \* or a final one: exited, failed, panicked
    overflow_checks, \* the build panics on integer overflow (else wraps)
    config,          \* config.keys.normal, fixed after load
    mode,            \* current_buffer.mode
    cursor,          \* current_buffer.cursor: [x, y]
    buffer,          \* current_buffer.buffer: lines of characters
    render_buffer,   \* current_buffer.render_buffer, the dirty flag
    queue,           \* commands queued on `out`, not yet flushed
    written,         \* commands delivered to the terminal so far, in order
    raw,             \* terminal is in raw mode
    alt,             \* terminal shows the alternate screen
    termOps,         \* terminal mode switches performed, in order
    exit_code,       \* process exit status, -1 while running
    errs,            \* lines written to the error stream
    saveResult,      \* what the last Window::save() call returned, or None
    nEvents,         \* events read so far
    lastEvent,       \* the event handled last
    lastMode,        \* the mode the buffer was in when it was read
    lastKey,         \* the keymap string looked up for it, "" if none
    lastKeyAction,   \* what that lookup returned
    lastAct,         \* the Action handle_single_action got for it, or None
    prevAct,         \* the same for the event before it
    lastPre,         \* cursor before the last event was handled
    prevPre,         \* cursor before the event before it
    insertLog,       \* arguments of the Window::insert calls, in order
    typed            \* characters of the Char events read in Insert mode

progVars  == <<pc, mode, cursor, buffer, render_buffer, queue, written,
               raw, alt, termOps, exit_code, errs, saveResult>>

fixedVars == <<overflow_checks, config>>

histVars  == <<nEvents, lastEvent, lastMode, lastKey, lastKeyAction, lastAct, prevAct,
               lastPre, prevPre, insertLog, typed>>

vars == <<progVars, fixedVars, histVars>>

(* --------------------------- editor methods --------------------------- *)

\* Editor::move_cursor: set both coordinates, queue the cursor move
MoveCursor(x, y) ==
    /\ cursor' = [x |-> x, y |-> y]
    /\ queue' = Append(queue, MoveTo(x, y))

\* Editor::enter_insert_mode
EnterInsertMode ==
    /\ mode' = "Insert"
    /\ queue' = Append(queue, SetCursorStyle("BlinkingBar"))

\* variant: the mode assignment of enter_insert_mode pasted here
EnterNormalModeSwapped ==
    /\ mode' = "Insert"
    /\ queue' = Append(queue, SetCursorStyle("DefaultUserShape"))

\* Editor::enter_normal_mode
EnterNormalMode ==
    /\ mode' = "Normal"
    /\ queue' = Append(queue, SetCursorStyle("DefaultUserShape"))

\* a Move* arm: move_cursor to the target; a sum that left u16 panics in a
\* build with overflow checks and wraps in one without
MoveArm(target) ==
    IF Overflowed(target) /\ overflow_checks
    THEN /\ pc' = "panicked"
         /\ exit_code' = 101
         /\ UNCHANGED <<cursor, queue>>
    ELSE /\ MoveCursor(WrapU16(target.x), WrapU16(target.y))
         /\ pc' = "refresh"
         /\ UNCHANGED exit_code

\* variant: the process exits without disable_raw
QuitArmNoRestore ==
    /\ written' = written \o queue \o <<"LeaveAlternateScreen">>
    /\ queue' = <<>>
    /\ alt' = FALSE
    /\ raw' = raw
    /\ termOps' = termOps \o <<"LeaveAlternateScreen">>
    /\ exit_code' = 0
    /\ pc' = "exited"

\* the Quit arm: leave_alt_screen, disable_raw, std::process::exit(0)
QuitArm ==
    /\ written' = written \o queue \o <<"LeaveAlternateScreen">>
    /\ queue' = <<>>
    /\ alt' = FALSE
    /\ raw' = FALSE
    /\ termOps' = termOps \o <<"LeaveAlternateScreen", "DisableRawMode">>
    /\ exit_code' = 0
    /\ pc' = "exited"

\* variant: the result of save is unwrapped, a failure ends the process
SaveArmUnwrap(res) ==
    /\ saveResult' = res
    /\ errs' = IF res \in SaveErrors THEN Append(errs, ErrorText(res))
                                     ELSE errs
    /\ pc' = IF res \in SaveErrors THEN "panicked" ELSE "refresh"
    /\ exit_code' = IF res \in SaveErrors THEN 101 ELSE exit_code

\* the Save arm: save().map_err(|e| e.to_string()), eprintln! on Err
SaveArm(res) ==
    /\ saveResult' = res
    /\ errs' = IF res \in SaveErrors THEN Append(errs, ErrorText(res))
                                     ELSE errs
    /\ pc' = "refresh"
    /\ exit_code' = exit_code

\* Editor::handle_single_action
HandleSingleAction(a) ==
    \/ /\ a = "Quit"
       /\ QuitArm
       /\ UNCHANGED <<mode, cursor, buffer, render_buffer, errs, saveResult>>
    \/ /\ a = "MoveUp"
       /\ MoveArm(MoveUpTarget(cursor))
       /\ UNCHANGED <<mode, buffer, render_buffer, written, raw, alt,
                      termOps, errs, saveResult>>
    \/ /\ a = "MoveDown"
       /\ MoveArm(MoveDownTarget(cursor))
       /\ UNCHANGED <<mode, buffer, render_buffer, written, raw, alt,
                      termOps, errs, saveResult>>
    \/ /\ a = "MoveLeft"
       /\ MoveArm(MoveLeftTarget(cursor))
       /\ UNCHANGED <<mode, buffer, render_buffer, written, raw, alt,
                      termOps, errs, saveResult>>
    \/ /\ a = "MoveRight"
       /\ MoveArm(MoveRightTarget(cursor))
       /\ UNCHANGED <<mode, buffer, render_buffer, written, raw, alt,
                      termOps, errs, saveResult>>
    \/ /\ a = "InsertMode"
       /\ EnterInsertMode
       /\ pc' = "refresh"
       /\ UNCHANGED <<cursor, buffer, render_buffer, written, raw, alt,
                      termOps, exit_code, errs, saveResult>>
    \/ /\ a = "NormalMode"
       /\ EnterNormalMode
       /\ pc' = "refresh"
       /\ UNCHANGED <<cursor, buffer, render_buffer, written, raw, alt,
                      termOps, exit_code, errs, saveResult>>
    \/ /\ a = "InsertLineAfter"
       /\ buffer' = WindowInsertLineBelow(buffer, cursor)
       /\ cursor' = [x |-> 0, y |-> ClampRow(buffer, cursor)]
       /\ render_buffer' = TRUE
       /\ pc' = "refresh"
       /\ UNCHANGED <<mode, queue, written, raw, alt, termOps, exit_code,
                      errs, saveResult>>
    \/ /\ a = "InsertLineAbove"
       /\ buffer' = WindowInsertLineAbove(buffer, cursor)
       /\ cursor' = [x |-> 0, y |-> ClampRow(buffer, cursor) - 1]
       /\ render_buffer' = TRUE
       /\ pc' = "refresh"
       /\ UNCHANGED <<mode, queue, written, raw, alt, termOps, exit_code,
                      errs, saveResult>>
    \/ /\ a = "DeleteUnderCursor"
       /\ buffer' = WindowDeleteUnderCursor(buffer, cursor)
       /\ render_buffer' = TRUE
       /\ pc' = "refresh"
       /\ UNCHANGED <<mode, cursor, queue, written, raw, alt, termOps,
                      exit_code, errs, saveResult>>
    \/ /\ a = "Save"
       /\ \E res \in SaveResults : SaveArm(res)
       /\ UNCHANGED <<mode, cursor, buffer, render_buffer, queue, written,
                      raw, alt, termOps>>

\* variant: a handler that did nothing still marks the buffer dirty
NoEffectRedraw ==
    /\ pc' = "refresh"
    /\ render_buffer' = TRUE
    /\ UNCHANGED <<mode, cursor, buffer, queue, written,
                   raw, alt, termOps, exit_code, errs, saveResult>>

\* the handler returned without touching the editor
NoEffect ==
    /\ pc' = "refresh"
    /\ UNCHANGED <<mode, cursor, buffer, render_buffer, queue, written,
                   raw, alt, termOps, exit_code, errs, saveResult>>

\* variant: the leading action of every shape reaches the dispatcher
HandleKeyEventAnyShape(action) ==
    /\ lastAct' = action.action
    /\ HandleSingleAction(action.action)

\* Editor::handle_key_event: only Some(Single(a)) reaches the dispatcher
HandleKeyEvent(action) ==
    IF action.shape = "Single"
    THEN /\ lastAct' = action.action
         /\ HandleSingleAction(action.action)
    ELSE /\ lastAct' = "None"
         /\ NoEffect

\* variant: Enter in Normal mode moves the cursor down
HandleNormalEventEnterMoves(event) ==
    IF event.kind = "Key" /\ event.code = "Char"
    THEN LET key    == LookupKey(event.modifiers, event.c)
             action == KeymapGet(config, key)
         IN  /\ lastKey' = key
             /\ lastKeyAction' = action
             /\ IF action # NoKeyAction
                THEN HandleKeyEvent(action)
                ELSE lastAct' = "None" /\ NoEffect
             /\ UNCHANGED insertLog
    ELSE IF event.kind = "Key" /\ event.code = "Enter"
    THEN /\ lastKey' = ""
         /\ lastKeyAction' = NoKeyAction
         /\ lastAct' = "MoveDown"
         /\ HandleSingleAction("MoveDown")
         /\ UNCHANGED insertLog
    ELSE /\ lastKey' = ""
         /\ lastKeyAction' = NoKeyAction
         /\ lastAct' = "None"
         /\ NoEffect
         /\ UNCHANGED insertLog

\* Editor::handle_normal_event
HandleNormalEvent(event) ==
    IF event.kind = "Key" /\ event.code = "Char"
    THEN LET key    == LookupKey(event.modifiers, event.c)
             action == KeymapGet(config, key)
         IN  /\ lastKey' = key
             /\ lastKeyAction' = action
             /\ IF action # NoKeyAction
                THEN HandleKeyEvent(action)
                ELSE lastAct' = "None" /\ NoEffect
             /\ UNCHANGED insertLog
    ELSE /\ lastKey' = ""
         /\ lastKeyAction' = NoKeyAction
         /\ lastAct' = "None"
         /\ NoEffect
         /\ UNCHANGED insertLog

\* variant: leaving Insert mode by Esc steps the cursor one column back
HandleInsertEventEscStepsBack(event) ==
    /\ lastKey' = ""
    /\ lastKeyAction' = NoKeyAction
    /\ lastAct' = "None"
    /\ pc' = "refresh"
    /\ IF event.kind = "Key" /\ event.code = "Char"
       THEN /\ buffer' = WindowInsert(buffer, cursor, event.c)
            /\ render_buffer' = TRUE
            /\ insertLog' = Append(insertLog, event.c)
            /\ UNCHANGED <<mode, queue, cursor>>
       ELSE IF event.kind = "Key" /\ event.code = "Esc"
       THEN /\ mode' = "Normal"
            /\ cursor' = MoveLeftTarget(cursor)
            /\ queue' = queue \o <<SetCursorStyle("DefaultUserShape"),
                                    MoveTo(MoveLeftTarget(cursor).x, cursor.y)>>
            /\ UNCHANGED <<buffer, render_buffer, insertLog>>
       ELSE UNCHANGED <<mode, queue, cursor, buffer, render_buffer,
                        insertLog>>
    /\ UNCHANGED <<written, raw, alt, termOps, exit_code, errs, saveResult>>

\* variant: Insert mode resolves its events through the keymap as well
HandleInsertEventViaKeymap(event) == HandleNormalEvent(event)

\* Editor::handle_insert_event
HandleInsertEvent(event) ==
    /\ lastKey' = ""
    /\ lastKeyAction' = NoKeyAction
    /\ lastAct' = "None"
    /\ pc' = "refresh"
    /\ IF event.kind = "Key" /\ event.code = "Char"
       THEN /\ buffer' = WindowInsert(buffer, cursor, event.c)
            /\ render_buffer' = TRUE
            /\ insertLog' = Append(insertLog, event.c)
            /\ UNCHANGED <<mode, queue>>
       ELSE IF event.kind = "Key" /\ event.code = "Esc"
       THEN /\ EnterNormalMode
            /\ UNCHANGED <<buffer, render_buffer, insertLog>>
       ELSE UNCHANGED <<mode, queue, buffer, render_buffer, insertLog>>
    /\ UNCHANGED <<cursor, written, raw, alt, termOps, exit_code, errs,
                   saveResult>>

\* variant: the rows of the redraw are counted from 1
RECURSIVE DrawLinesOneBased(_, _)
DrawLinesOneBased(buf, i) ==
    IF i > Len(buf) THEN <<>>
    ELSE <<MoveTo(0, WrapU16(i)), PrintLine(buf[i])>>
         \o DrawLinesOneBased(buf, i + 1)

\* the lines of refresh_screen's loop: MoveTo(0, i as u16), Print("{line}\r")
RECURSIVE DrawLines(_, _)
DrawLines(buf, i) ==
    IF i > Len(buf) THEN <<>>
    ELSE <<MoveTo(0, WrapU16(i - 1)), PrintLine(buf[i])>>
         \o DrawLines(buf, i + 1)

(* ------------------------------ actions ------------------------------- *)

\* Editor::run before the loop: clear, enter the alternate screen, raw mode
RunStart ==
    /\ pc = "start"
    /\ written' = written \o queue \o <<ClearAll, "EnterAlternateScreen">>
    /\ queue' = <<>>
    /\ alt' = TRUE
    /\ raw' = TRUE
    /\ termOps' = termOps \o <<"EnterAlternateScreen", "EnableRawMode">>
    /\ pc' = "refresh"
    /\ UNCHANGED <<mode, cursor, buffer, render_buffer, exit_code, errs,
                   saveResult>>
    /\ UNCHANGED <<fixedVars, histVars>>

\* variant: the redraw leaves the dirty flag set
RefreshScreenKeepsFlag ==
    /\ pc = "refresh"
    /\ IF render_buffer
       THEN /\ written' = written \o queue \o <<ClearAll>>
            /\ queue' = DrawLines(buffer, 1)
                        \o <<MoveTo(cursor.x, cursor.y)>>
            /\ render_buffer' = render_buffer
       ELSE UNCHANGED <<written, queue, render_buffer>>
    /\ pc' = "flush"
    /\ UNCHANGED <<mode, cursor, buffer, raw, alt, termOps, exit_code, errs,
                   saveResult>>
    /\ UNCHANGED <<fixedVars, histVars>>

\* Editor::refresh_screen: a full redraw when the buffer is dirty
RefreshScreen ==
    /\ pc = "refresh"
    /\ IF render_buffer
       THEN /\ written' = written \o queue \o <<ClearAll>>
            /\ queue' = DrawLines(buffer, 1)
                        \o <<MoveTo(cursor.x, cursor.y)>>
            /\ render_buffer' = FALSE
       ELSE UNCHANGED <<written, queue, render_buffer>>
    /\ pc' = "flush"
    /\ UNCHANGED <<mode, cursor, buffer, raw, alt, termOps, exit_code, errs,
                   saveResult>>
    /\ UNCHANGED <<fixedVars, histVars>>

\* Editor::flush
Flush ==
    /\ pc = "flush"
    /\ written' = written \o queue
    /\ queue' = <<>>
    /\ pc' = "read"
    /\ UNCHANGED <<mode, cursor, buffer, render_buffer, raw, alt, termOps,
                   exit_code, errs, saveResult>>
    /\ UNCHANGED <<fixedVars, histVars>>

\* bookkeeping of one event read
Record(event) ==
    /\ nEvents' = nEvents + 1
    /\ lastEvent' = event
    /\ lastMode' = mode
    /\ prevAct' = lastAct
    /\ prevPre' = lastPre
    /\ lastPre' = cursor
    /\ typed' = IF mode = "Insert" /\ event.kind = "Key"
                   /\ event.code = "Char"
                THEN Append(typed, event.c)
                ELSE typed

\* variant: the arms of the match on the mode are swapped
ReadNormalSwapped ==
    /\ pc = "read"
    /\ mode = "Normal"
    /\ nEvents < MaxEvents
    /\ \E event \in Events :
          /\ Record(event)
          /\ HandleInsertEvent(event)
    /\ UNCHANGED fixedVars

\* read() returned an event while the buffer is in Normal mode
ReadNormal ==
    /\ pc = "read"
    /\ mode = "Normal"
    /\ nEvents < MaxEvents
    /\ \E event \in Events :
          /\ Record(event)
          /\ HandleNormalEvent(event)
    /\ UNCHANGED fixedVars

\* read() returned an event while the buffer is in Insert mode
ReadInsert ==
    /\ pc = "read"
    /\ mode = "Insert"
    /\ nEvents < MaxEvents
    /\ \E event \in Events :
          /\ Record(event)
          /\ HandleInsertEvent(event)
    /\ UNCHANGED fixedVars

\* variant: the terminal is restored before the error leaves run
ReadFailRestores ==
    /\ pc = "read"
    /\ pc' = "failed"
    /\ exit_code' = 1
    /\ written' = written \o queue \o <<"LeaveAlternateScreen">>
    /\ queue' = <<>>
    /\ alt' = FALSE
    /\ raw' = FALSE
    /\ termOps' = termOps \o <<"LeaveAlternateScreen", "DisableRawMode">>
    /\ UNCHANGED <<mode, cursor, buffer, render_buffer, errs, saveResult>>
    /\ UNCHANGED <<fixedVars, histVars>>

\* read() failed: the ? operator returns the error from run
ReadFail ==
    /\ pc = "read"
    /\ pc' = "failed"
    /\ exit_code' = 1
    /\ UNCHANGED <<mode, cursor, buffer, render_buffer, queue, written,
                   raw, alt, termOps, errs, saveResult>>
    /\ UNCHANGED <<fixedVars, histVars>>

NoHistory ==
    /\ nEvents = 0
    /\ lastEvent = NoEvent
    /\ lastMode = "Normal"
    /\ lastKey = ""
    /\ lastKeyAction = NoKeyAction
    /\ lastAct = "None"
    /\ prevAct = "None"
    /\ lastPre = cursor
    /\ prevPre = cursor
    /\ insertLog = <<>>
    /\ typed = <<>>

\* the editor as Editor::new returns it, before run is called; the fields
\* of the buffer (mode Normal, cursor (0,0), lines, dirty flag either way)
\* are those the specification gives a freshly opened Window
Init ==
    /\ pc = "start"
    /\ overflow_checks \in BOOLEAN
    /\ config \in Configs
    /\ mode = "Normal"
    /\ cursor = [x |-> 0, y |-> 0]
    /\ buffer \in InitBuffers
    /\ render_buffer \in BOOLEAN
    /\ queue = <<>>
    /\ written = <<>>
    /\ raw = FALSE
    /\ alt = FALSE
    /\ termOps = <<>>
    /\ exit_code = -1
    /\ errs = <<>>
    /\ saveResult = "None"
    /\ NoHistory

\* cursor positions a long run of MoveDown / MoveRight presses has reached
EdgeCoords == {0, U16Mod - 1 - EdgeGap}

\* the editor blocked in read() after such a run: screen drawn and flushed
DeepRun ==
    /\ pc = "read"
    /\ overflow_checks \in BOOLEAN
    /\ config \in Configs
    /\ mode = "Normal"
    /\ cursor \in { [x |-> cx, y |-> cy] : cx \in EdgeCoords,
                                            cy \in EdgeCoords }
    /\ buffer \in InitBuffers
    /\ render_buffer = FALSE
    /\ queue = <<>>
    /\ written = <<>>
    /\ raw = TRUE
    /\ alt = TRUE
    /\ termOps = <<"EnterAlternateScreen", "EnableRawMode">>
    /\ exit_code = -1
    /\ errs = <<>>
    /\ saveResult = "None"
    /\ NoHistory

\* a run is picked up at its start or deep into it
DeepInit == Init \/ DeepRun

Next ==
    \/ RunStart
    \/ RefreshScreen
    \/ Flush
    \/ ReadNormal
    \/ ReadInsert
    \/ ReadFail

Spec == Init /\ [][Next]_vars

\* the same program, its runs also picked up deep into them
DeepSpec == DeepInit /\ [][Next]_vars

TypeOK ==
    /\ pc \in {"start", "refresh", "flush", "read", "exited", "failed",
               "panicked"}
    /\ mode \in Modes
    /\ cursor.x \in 0..(U16Mod - 1)
    /\ cursor.y \in 0..(U16Mod - 1)
    /\ render_buffer \in BOOLEAN

(* ------------------------------ claims -------------------------------- *)

\* a step of the loop that read and handled one event
EventStep == pc = "read" /\ nEvents' = nEvents + 1

\* C1: the mode is always Normal or Insert, it is Normal at the start, and
\* the mode changes only from Normal to Insert by the InsertMode action and
\* from Insert to Normal by the NormalMode action or the Esc key.
C1_ModeMachine ==
    /\ mode = "Normal"
    /\ [](mode \in {"Normal", "Insert"})
    /\ [][ mode' # mode =>
             /\ EventStep
             /\ \/ /\ mode = "Normal"
                   /\ mode' = "Insert"
                   /\ lastAct' = "InsertMode"
                \/ /\ mode = "Insert"
                   /\ mode' = "Normal"
                   /\ \/ lastAct' = "NormalMode"
                      \/ lastEvent'.kind = "Key" /\ lastEvent'.code = "Esc"
         ]_vars

\* C1 witness: Insert mode was entered by InsertMode and left again by Esc
C1_Witness ==
    /\ prevAct = "InsertMode"
    /\ lastMode = "Insert"
    /\ lastEvent.code = "Esc"
    /\ mode = "Normal"

\* C2: in Insert mode every Char event, whatever its character, modifiers
\* and Normal-mode binding, makes exactly one Window::insert call with that
\* character, looks nothing up in the keymap and dispatches no Action.
C2_InsertBypassesKeymap ==
    [][ (EventStep /\ mode = "Insert" /\ lastEvent'.code = "Char") =>
          /\ insertLog' = Append(insertLog, lastEvent'.c)
          /\ lastKey' = ""
          /\ lastKeyAction' = NoKeyAction
          /\ lastAct' = "None"
          /\ mode' = "Insert"
          /\ cursor' = cursor
          /\ exit_code' = exit_code
          /\ pc' = "refresh"
      ]_vars

\* C2 witness: Ctrl-q, bound in Normal mode, was typed in Insert mode and
\* went into the buffer
C2_Witness ==
    /\ lastMode = "Insert"
    /\ lastEvent.code = "Char"
    /\ lastEvent.c = "q"
    /\ lastEvent.modifiers = {"CONTROL"}
    /\ LookupKey(lastEvent.modifiers, lastEvent.c) \in DOMAIN config
    /\ insertLog # <<>>
    /\ insertLog[Len(insertLog)] = "q"
    /\ mode = "Insert"

\* C3: the alternate screen and raw mode are entered once when run starts
\* and stay on while the loop runs; a process that Quit ended left the
\* alternate screen, then disabled raw mode, each once, and exited with 0.
C3_TerminalReleasedOnQuit ==
    /\ pc \in {"refresh", "flush", "read"} =>
          /\ raw /\ alt
          /\ termOps = <<"EnterAlternateScreen", "EnableRawMode">>
    /\ pc = "exited" =>
          /\ lastAct = "Quit"
          /\ exit_code = 0
          /\ ~raw /\ ~alt
          /\ termOps = <<"EnterAlternateScreen", "EnableRawMode",
                         "LeaveAlternateScreen", "DisableRawMode">>

\* C3 witness: the process has ended through Quit
C3_Witness == pc = "exited" /\ lastAct = "Quit" /\ nEvents > 1

\* C4: MoveUp at row 0 leaves row and column as they were, however often
\* it is repeated, and still queues a cursor move to that same position.
C4_MoveUpAtTop ==
    (lastAct = "MoveUp" /\ lastPre.y = 0) =>
        /\ cursor = lastPre
        /\ cursor.y = 0
        /\ pc # "panicked"
        /\ pc = "refresh" => queue = <<MoveTo(lastPre.x, 0)>>

\* C4 witness: two MoveUp in a row at row 0, away from column 0, the move
\* of the second still in the queue
C4_Witness ==
    /\ pc = "refresh"
    /\ lastAct = "MoveUp"
    /\ prevAct = "MoveUp"
    /\ lastPre.y = 0
    /\ lastPre.x > 0
    /\ queue = <<MoveTo(cursor.x, 0)>>

\* C5: MoveLeft at column 0 leaves column and row as they were, however
\* often it is repeated.
C5_MoveLeftAtEdge ==
    (lastAct = "MoveLeft" /\ lastPre.x = 0) =>
        /\ cursor = lastPre
        /\ cursor.x = 0
        /\ pc # "panicked"

\* C5 witness: two MoveLeft in a row at column 0, away from row 0
C5_Witness ==
    /\ lastAct = "MoveLeft"
    /\ prevAct = "MoveLeft"
    /\ lastPre.x = 0
    /\ lastPre.y > 0
    /\ cursor = lastPre

\* C6: MoveDown then MoveUp from a row other than 0 brings the cursor back
\* to the row it started on, MoveRight then MoveLeft from a column other
\* than 0 back to the column, the other coordinate unchanged in both.
C6_InversePair ==
    /\ (prevAct = "MoveDown" /\ lastAct = "MoveUp" /\ prevPre.y # 0)
          => cursor = prevPre
    /\ (prevAct = "MoveRight" /\ lastAct = "MoveLeft" /\ prevPre.x # 0)
          => cursor = prevPre

\* C7: from every cursor position MoveDown adds exactly 1 to the row and
\* MoveRight exactly 1 to the column, the other coordinate unchanged, and
\* the editor keeps running.
C7_MoveDownRightUnbounded ==
    /\ lastAct = "MoveDown" =>
          /\ pc # "panicked"
          /\ cursor = [x |-> lastPre.x, y |-> lastPre.y + 1]
    /\ lastAct = "MoveRight" =>
          /\ pc # "panicked"
          /\ cursor = [x |-> lastPre.x + 1, y |-> lastPre.y]

\* C8: a Char event read in Normal mode is looked up under "S-"+c when the
\* modifier set is exactly Shift, "C-"+c when it is exactly Control, and c
\* alone for every other set; the KeyAction found is the keymap's entry for
\* that string, or none, so it depends on character, modifiers and
\* configuration only.
C8_LookupString ==
    (nEvents > 0 /\ lastMode = "Normal" /\ lastEvent.code = "Char") =>
        /\ lastEvent.modifiers = {"SHIFT"} => lastKey = "S-" \o lastEvent.c
        /\ lastEvent.modifiers = {"CONTROL"} => lastKey = "C-" \o lastEvent.c
        /\ lastEvent.modifiers \notin {{"SHIFT"}, {"CONTROL"}}
              => lastKey = lastEvent.c
        /\ lastKey \in DOMAIN config => lastKeyAction = config[lastKey]
        /\ lastKey \notin DOMAIN config => lastKeyAction = NoKeyAction

\* C8 witness: Shift+Control+j was read in Normal mode and resolved as the
\* unmodified j
C8_Witness ==
    /\ lastMode = "Normal"
    /\ lastEvent.code = "Char"
    /\ lastEvent.c = "j"
    /\ lastEvent.modifiers = {"SHIFT", "CONTROL"}
    /\ lastKey = "j"
    /\ lastKeyAction = Single("MoveDown")
    /\ lastAct = "MoveDown"

\* C9: a Char event read in Normal mode whose lookup string has no keymap
\* entry dispatches no action and leaves cursor, buffer, mode and dirty
\* flag as they were, and the refresh that follows draws nothing.
C9_UnboundKey ==
    /\ [][ (EventStep /\ mode = "Normal" /\ lastEvent'.code = "Char"
            /\ lastKey' \notin DOMAIN config) =>
              /\ lastAct' = "None"
              /\ cursor' = cursor
              /\ buffer' = buffer
              /\ mode' = mode
              /\ render_buffer' = render_buffer
              /\ render_buffer' = FALSE
              /\ pc' = "refresh"
         ]_vars
    /\ [][ (pc = "refresh" /\ nEvents > 0 /\ lastMode = "Normal"
            /\ lastEvent.code = "Char" /\ lastKey \notin DOMAIN config) =>
              /\ written' = written
              /\ queue' = queue
         ]_vars

\* C9 witness: the unbound z was read in Normal mode and the loop is back
\* at the read with nothing drawn
C9_Witness ==
    /\ pc = "read"
    /\ nEvents > 0
    /\ lastMode = "Normal"
    /\ lastEvent.code = "Char"
    /\ lastEvent.c = "z"
    /\ lastKey = "z"
    /\ lastKeyAction = NoKeyAction

\* C10: an Action reaches handle_single_action only out of a Single
\* KeyAction; a key bound to Multiple, Nested or Repeating changes neither
\* mode, cursor, buffer, dirty flag nor terminal, and the loop goes on.
C10_OnlySingleDispatched ==
    [][ EventStep =>
          /\ lastAct' # "None" => lastKeyAction' = Single(lastAct')
          /\ lastKeyAction'.shape \in {"Multiple", "Nested", "Repeating"} =>
                /\ lastAct' = "None"
                /\ UNCHANGED <<mode, cursor, buffer, render_buffer, queue,
                               written, raw, alt, termOps, exit_code, errs,
                               saveResult>>
                /\ pc' = "refresh"
      ]_vars

\* C10 witness: a key bound to a Repeating KeyAction was pressed and the
\* loop is back at the read
C10_Witness ==
    /\ pc = "read"
    /\ nEvents > 0
    /\ lastMode = "Normal"
    /\ lastKeyAction.shape = "Repeating"
    /\ lastAct = "None"

\* C11: InsertMode followed at once by NormalMode or Esc leaves the cursor
\* and the buffer lines as they were: no step that changes the mode, and no
\* handling of InsertMode, NormalMode or Esc, touches cursor or lines, and
\* neither does the refresh and flush between the two events.
C11_ModeRoundTrip ==
    /\ [][ (/\ EventStep
            /\ \/ mode' # mode
               \/ lastAct' \in {"InsertMode", "NormalMode"}
               \/ mode = "Insert" /\ lastEvent'.code = "Esc")
           => (cursor' = cursor /\ buffer' = buffer) ]_vars
    /\ [][ ~EventStep => (cursor' = cursor /\ buffer' = buffer) ]_vars
    /\ []( (/\ prevAct = "InsertMode"
            /\ lastMode = "Insert"
            /\ \/ lastEvent.code = "Esc"
               \/ lastAct = "NormalMode")
           => cursor = prevPre )

\* C11 witness: away from column 0, InsertMode then Esc, the cursor where
\* it was before the two
C11_Witness ==
    /\ prevAct = "InsertMode"
    /\ lastMode = "Insert"
    /\ lastEvent.code = "Esc"
    /\ mode = "Normal"
    /\ prevPre.x > 0
    /\ cursor = prevPre
    /\ pc = "read"

\* C12: a dispatched Save leaves mode, cursor, lines and dirty flag as they
\* were and the loop goes on; when save() fails the display text of the
\* failure is written to the error stream once, when it succeeds nothing
\* is written there.
C12_SaveFailureReported ==
    [][ (EventStep /\ lastAct' = "Save") =>
          /\ saveResult' \in SaveResults
          /\ mode' = mode
          /\ cursor' = cursor
          /\ buffer' = buffer
          /\ render_buffer' = render_buffer
          /\ pc' = "refresh"
          /\ exit_code' = -1
          /\ saveResult' \in SaveErrors =>
                /\ Len(errs') = Len(errs) + 1
                /\ SubSeq(errs', 1, Len(errs)) = errs
                /\ errs'[Len(errs')] = ErrorText(saveResult')
          /\ saveResult' = "Ok" => errs' = errs
      ]_vars

\* C12 witness: one Save failed, the loop is back at the read in the same
\* mode with the one line on the error stream
C12_Witness ==
    /\ pc = "read"
    /\ lastAct = "Save"
    /\ saveResult = "StorageFull"
    /\ errs = <<"No space left on device (os error 28)">>
    /\ mode = "Normal"
    /\ exit_code = -1

\* C13: the Window::insert calls made so far are exactly the characters of
\* the Char events read in Insert mode, one call per character, in the
\* order they were pressed; the key that entered Insert mode, read in Normal
\* mode, is not among them.
C13_InsertsInPressOrder == insertLog = typed

\* C13 witness: i (InsertMode) was pressed, then z, then q: two inserts,
\* z before q
C13_Witness ==
    /\ config = KeysNormalA
    /\ nEvents = 3
    /\ lastMode = "Insert"
    /\ mode = "Insert"
    /\ typed = <<"z", "q">>
    /\ insertLog = <<"z", "q">>

\* the positions of Editor::run inside its loop
LoopPcs == {"refresh", "flush", "read"}

\* run has not ended: it is about to start or inside its loop
Running == pc \in (LoopPcs \cup {"start"})

FullRedraw(buf, cur) ==
    [ i \in 1..(2 * Len(buf)) |->
        IF i % 2 = 1 THEN <<"MoveTo", 0, (i - 1) \div 2>>
                     ELSE <<"Print", buf[i \div 2], "\r">> ]
    \o << <<"MoveTo", cur.x, cur.y>> >>

\* the last n commands delivered to the terminal
LastWritten(n) == SubSeq(written, Len(written) - n + 1, Len(written))

\* the event handled last marked the buffer dirty
LastEventDirtied ==
    \/ lastAct \in {"InsertLineAfter", "InsertLineAbove", "DeleteUnderCursor"}
    \/ lastMode = "Insert" /\ lastEvent.code = "Char"

\* C15: an iteration first, iff the buffer is dirty, clears the screen,
\* queues every line at its row and the cursor at its coordinates and
\* clears the flag; then flushes; then reads an event and routes it by the
\* current mode.  So when the loop reads again after an event that marked
\* the buffer dirty, a full redraw has been delivered to the terminal.
C15_IterationOrder ==
    /\ [][ (pc = "refresh") =>
             /\ pc' = "flush"
             /\ cursor' = cursor
             /\ buffer' = buffer
             /\ render_buffer =>
                   /\ written' = written \o queue \o << <<"Clear", "All">> >>
                   /\ queue' = FullRedraw(buffer, cursor)
                   /\ render_buffer' = FALSE
             /\ ~render_buffer =>
                   UNCHANGED <<written, queue, render_buffer>>
         ]_vars
    /\ [][ (pc = "flush") =>
             /\ pc' = "read"
             /\ written' = written \o queue
             /\ queue' = <<>>
             /\ render_buffer' = render_buffer
         ]_vars
    /\ [][ (pc = "read") =>
             /\ pc' \notin {"flush", "read", "start"}
             /\ EventStep => lastMode' = mode
         ]_vars
    /\ []( (pc = "read" /\ nEvents > 0 /\ LastEventDirtied) =>
             /\ queue = <<>>
             /\ ~render_buffer
             /\ Len(written) >= 2 * Len(buffer) + 2
             /\ LastWritten(2 * Len(buffer) + 2)
                  = << <<"Clear", "All">> >> \o FullRedraw(buffer, cursor) )

\* C15 witness: a character typed in Insert mode, and the loop back at the
\* read with the three lines of the buffer redrawn
C15_Witness ==
    /\ pc = "read"
    /\ lastMode = "Insert"
    /\ lastEvent.code = "Char"
    /\ Len(buffer) = 3
    /\ ~render_buffer
    /\ LastWritten(8) = << <<"Clear", "All">> >> \o FullRedraw(buffer, cursor)

\* C16: an event is handled by the handler of the mode the buffer was in
\* when it was read, and by that one only: an event read in Normal mode
\* makes no insert call, one read in Insert mode looks up and dispatches
\* nothing; so the key that dispatches InsertMode is not inserted and the
\* Esc that leaves Insert mode is not resolved through the keymap.
C16_HandledByModeAtRead ==
    [][ EventStep =>
          /\ lastMode' = mode
          /\ mode = "Normal" => insertLog' = insertLog
          /\ mode = "Insert" =>
                /\ lastKey' = ""
                /\ lastKeyAction' = NoKeyAction
                /\ lastAct' = "None"
          /\ lastAct' = "InsertMode" =>
                /\ mode = "Normal"
                /\ mode' = "Insert"
                /\ insertLog' = insertLog
                /\ buffer' = buffer
          /\ (mode = "Insert" /\ lastEvent'.code = "Esc") =>
                /\ mode' = "Normal"
                /\ lastKey' = ""
                /\ lastAct' = "None"
                /\ insertLog' = insertLog
      ]_vars

\* C16 witness: InsertMode was dispatched and Esc pressed right after it,
\* with nothing inserted and nothing looked up for the Esc
C16_Witness ==
    /\ prevAct = "InsertMode"
    /\ lastMode = "Insert"
    /\ lastEvent.code = "Esc"
    /\ lastKey = ""
    /\ lastAct = "None"
    /\ mode = "Normal"
    /\ insertLog = <<>>
    /\ buffer \in InitBuffers

\* C17: an event read in Normal mode that is not a Char key event (Esc,
\* Enter and the like, or no key event at all) is matched to no action and
\* leaves mode, cursor, lines and dirty flag as they were.
C17_NonCharIgnoredInNormal ==
    [][ (EventStep /\ mode = "Normal"
         /\ ~(lastEvent'.kind = "Key" /\ lastEvent'.code = "Char")) =>
          /\ lastKey' = ""
          /\ lastKeyAction' = NoKeyAction
          /\ lastAct' = "None"
          /\ mode' = mode
          /\ cursor' = cursor
          /\ buffer' = buffer
          /\ render_buffer' = render_buffer
          /\ queue' = queue
          /\ pc' = "refresh"
      ]_vars

\* C17 witness: away from row 0, Enter was read in Normal mode and the
\* cursor is where it was
C17_Witness ==
    /\ pc = "read"
    /\ lastMode = "Normal"
    /\ lastEvent.kind = "Key"
    /\ lastEvent.code = "Enter"
    /\ lastPre.y > 0
    /\ cursor = lastPre
    /\ mode = "Normal"
    /\ ~render_buffer

\* C18: when the event read fails the loop stops and the error leaves run:
\* no handler runs for that iteration, nothing of the editor changes, and
\* the terminal stays in raw mode on the alternate screen, which nothing
\* restores afterwards.
C18_ReadFailurePropagates ==
    /\ [][ (pc = "read" /\ ~EventStep) =>
             /\ pc' = "failed"
             /\ exit_code' # 0
             /\ UNCHANGED <<mode, cursor, buffer, render_buffer, queue,
                            written, raw, alt, termOps, errs>>
             /\ UNCHANGED histVars
         ]_vars
    /\ [][ pc # "failed" ]_vars
    /\ []( pc = "failed" =>
             /\ raw
             /\ alt
             /\ termOps = <<"EnterAlternateScreen", "EnableRawMode">> )

\* C18 witness: Insert mode was entered, the next read failed, and the
\* terminal is still raw and on the alternate screen
C18_Witness ==
    /\ pc = "failed"
    /\ nEvents = 1
    /\ mode = "Insert"
    /\ raw
    /\ alt

\* C19: whenever the loop is blocked in the event read the dirty flag of
\* the buffer is false and nothing is left in the output queue.
C19_CleanWhenBlocked ==
    pc = "read" => (render_buffer = FALSE /\ queue = <<>>)

\* C19 witness: a line was inserted above the cursor, which marks the buffer
\* dirty, and the loop is blocked in the read again with the flag cleared
C19_Witness ==
    /\ pc = "read"
    /\ lastAct = "InsertLineAbove"
    /\ Len(buffer) > 2
    /\ render_buffer = FALSE

\* C20: a dispatched MoveUp, MoveDown, MoveLeft or MoveRight changes at
\* most its own coordinate and leaves the other one, the mode, the lines
\* and the dirty flag as they were; nothing is drawn, and the one thing it
\* does to the terminal is to queue one cursor move to the new position.
C20_MoveFrame ==
    [][ (EventStep
         /\ lastAct' \in {"MoveUp", "MoveDown", "MoveLeft", "MoveRight"}) =>
          /\ lastAct' \in {"MoveUp", "MoveDown"} => cursor'.x = cursor.x
          /\ lastAct' \in {"MoveLeft", "MoveRight"} => cursor'.y = cursor.y
          /\ mode' = mode
          /\ buffer' = buffer
          /\ render_buffer' = render_buffer
          /\ written' = written
          /\ queue' = Append(queue, <<"MoveTo", cursor'.x, cursor'.y>>)
      ]_vars

====
